---- MODULE Spec2Model ----
(***************************************************************************)
(* Signaling server of AudioSharingBackendSIH2025 (src/server.js).         *)
(*                                                                         *)
(* One socket.io server holds two module-level objects, `rooms` and        *)
(* `pendingCandidates`, and registers six handlers per connected socket:   *)
(* createRoom, joinRoom, newOffer, newAnswer,                              *)
(* sendIceCandidateToSignalingServer and disconnect.  Node runs each       *)
(* handler to completion, so every handler is one atomic action.           *)
(*                                                                         *)
(* JavaScript objects iterate their (non-numeric) string keys in insertion *)
(* order, and the helpers findRoomFor... return the FIRST matching room of *)
(* Object.entries(rooms); `rooms` and each room's `offers` are therefore   *)
(* sequences in key-insertion order.  pendingCandidates is never iterated  *)
(* and is a function whose DOMAIN is its set of keys.                      *)
(***************************************************************************)
EXTENDS Naturals, Sequences, FiniteSets

\* ------------------------------------------------------------------------
\* Bounds and input sets
\* ------------------------------------------------------------------------

\* Number of ICE candidates the clients send in one behaviour.
MaxCandidates == 2

\* Number of client events (createRoom, joinRoom, newOffer, newAnswer,
\* sendIceCandidateToSignalingServer) the server handles in one behaviour
\* of Spec, where three sockets connect ...
MaxEvents == 4

\* ... and in one behaviour of SpecPair, where two sockets connect.
MaxPairEvents == 5

\* Socket ids (socket.id), unique per transport session and never reused:
\* the server names the sockets as they connect, SocketIds[k] is the k-th.
SocketIds == <<"s1", "s2", "s3">>
Conn == {SocketIds[k] : k \in 1..Len(SocketIds)}
PairConn == {SocketIds[1], SocketIds[2]}

\* Room ids supplied by the clients; "" stands for a missing/falsy roomId.
RoomIds == {"R1", "R2"}
MissingRoomId == ""
RoomIdInputs == RoomIds \cup {MissingRoomId}

\* Opaque offer and answer payloads.
Offers == {"O1"}
Answers == {"A1"}

\* JavaScript null.
Null == "null"

VARIABLES
    status,             \* socket id -> "idle" | "connected" | "disconnected"
    rooms,              \* the `rooms` object, as a sequence in key order
    pendingCandidates,  \* the `pendingCandidates` object
    groups,             \* socket.io adapter: room id -> sockets that joined it
    nextCand,           \* arrival number of the next ICE candidate
    steps,              \* number of client events handled so far
    joined,             \* history: room id -> sockets that joined and are still there
    lastOffer,          \* history: socket id -> its last accepted offer
    closedRooms         \* history: room ids destroyed by a teacher's disconnect

vars == <<status, rooms, pendingCandidates, groups, nextCand, steps,
          joined, lastOffer, closedRooms>>

\* ------------------------------------------------------------------------
\* Data helpers
\* ------------------------------------------------------------------------

NoOffer == [offer |-> Null, teacher |-> Null]

\* Object property test/write/delete on pendingCandidates.
HasKey(obj, k) == k \in DOMAIN obj
PutKey(obj, k, v) == [x \in (DOMAIN obj) \cup {k} |-> IF x = k THEN v ELSE obj[x]]
DeleteKey(obj, k) == [x \in (DOMAIN obj) \ {k} |-> obj[x]]

\* rooms[roomId]
HasRoom(rs, roomId) == \E i \in 1..Len(rs) : rs[i].id = roomId
RoomAt(rs, roomId) == rs[CHOOSE i \in 1..Len(rs) : rs[i].id = roomId]
SetRoom(rs, room) == [i \in 1..Len(rs) |-> IF rs[i].id = room.id THEN room ELSE rs[i]]

\* room.offers[socketId]
HasOffer(offers, sid) == \E i \in 1..Len(offers) : offers[i].offererSocketId = sid
OfferAt(offers, sid) == offers[CHOOSE i \in 1..Len(offers) : offers[i].offererSocketId = sid]
SetOffer(offers, entry) ==
    [i \in 1..Len(offers) |->
        IF offers[i].offererSocketId = entry.offererSocketId THEN entry ELSE offers[i]]
DeleteOffer(offers, sid) == SelectSeq(offers, LAMBDA e : e.offererSocketId # sid)

\* { offererSocketId, offer: null, answer: null, candidates: [] }
EmptyOffer(sid) ==
    [offererSocketId |-> sid, offer |-> Null, answer |-> Null, candidates |-> <<>>]

\* if (!room.offers[sid]) room.offers[sid] = { ...empty... }
EnsureOffer(offers, sid) ==
    IF HasOffer(offers, sid) THEN offers ELSE Append(offers, EmptyOffer(sid))

\* pending.map(p => p.candidate)
PendingList(pending) == [i \in 1..Len(pending) |-> pending[i].candidate]

\* The sockets an emit addressed to `address` reaches: a connected socket is
\* in the group named by its own id; a room id names the group socket.join
\* filled.
Recipients(st, grp, address) ==
    IF address \in RoomIds THEN grp[address]
    ELSE {c \in Conn : c = address /\ st[c] = "connected"}

\* io.to(address).emit(event, payload) and socket.emit(event, payload)
Emit(st, grp, address, event, payload) ==
    [to |-> address, rcpt |-> Recipients(st, grp, address),
     event |-> event, payload |-> payload]

\* A handler that was given no ack callback to call, or does not call it.
NoAck == [status |-> "none"]

\* ------------------------------------------------------------------------
\* Helpers of server.js
\* ------------------------------------------------------------------------

\* The id of the first room of Object.entries(rs) whose index is in `matching`,
\* or null: the `for ... of Object.entries(rooms)` loops with an early return.
FirstRoom(rs, matching) ==
    IF matching = {} THEN Null
    ELSE rs[CHOOSE i \in matching : \A j \in matching : i <= j].id

findRoomForStudentIn(rs, socketId) ==
    FirstRoom(rs, {i \in 1..Len(rs) : socketId \in rs[i].students})

findRoomForTeacherIn(rs, socketId) ==
    FirstRoom(rs, {i \in 1..Len(rs) : rs[i].teacherId = socketId})

findRoomForSocketPairIn(rs, fromSocketId, offererSocketId) ==
    FirstRoom(rs,
        {i \in 1..Len(rs) :
            LET room == rs[i]
                teacherMatch == room.teacherId = fromSocketId
                                \/ room.teacherId = offererSocketId
                studentMatch == fromSocketId \in room.students
                                \/ offererSocketId \in room.students
            IN teacherMatch /\ studentMatch})

\* Mutant: the room is looked up by membership, teacher or student.
findRoomForMember(socketId) ==
    FirstRoom(rooms, {i \in 1..Len(rooms) :
                         rooms[i].teacherId = socketId \/ socketId \in rooms[i].students})

\* The helpers as the handlers call them, on the module-level `rooms`.
findRoomForStudent(socketId) == findRoomForStudentIn(rooms, socketId)
findRoomForTeacher(socketId) == findRoomForTeacherIn(rooms, socketId)
findRoomForSocketPair(fromSocketId, offererSocketId) ==
    findRoomForSocketPairIn(rooms, fromSocketId, offererSocketId)

\* ------------------------------------------------------------------------
\* Initial state: the server has started, no socket has connected.
\* ------------------------------------------------------------------------

Init ==
    /\ status = [c \in Conn |-> "idle"]
    /\ rooms = <<>>
    /\ pendingCandidates = [c \in {} |-> <<>>]
    /\ groups = [r \in RoomIds |-> {}]
    /\ nextCand = 1
    /\ steps = 0
    /\ joined = [r \in RoomIds |-> {}]
    /\ lastOffer = [c \in Conn |-> NoOffer]
    /\ closedRooms = {}

\* io.on("connection", ...): the next socket id comes into use.
Connect(socket) ==
    /\ status[socket] = "idle"
    /\ \A k \in 1..Len(SocketIds) :
          SocketIds[k] = socket => \A j \in 1..(k - 1) : status[SocketIds[j]] # "idle"
    /\ status' = [status EXCEPT ![socket] = "connected"]
    /\ UNCHANGED <<rooms, pendingCandidates, groups, nextCand, steps, joined,
                   lastOffer, closedRooms>>

\* Every client event is sent by a connected socket and counts as a step.
Handles(socket) ==
    /\ status[socket] = "connected"
    /\ steps' = steps + 1

\* ------------------------------------------------------------------------
\* createRoom (lines 36-57)
\* ------------------------------------------------------------------------

\* rooms[roomId] = { teacherId: socket.id, students: new Set(), offers: {} }
NewRoom(roomId, socketId) ==
    [id |-> roomId, teacherId |-> socketId, students |-> {}, offers |-> <<>>]

\* Mutant: the claim replaces the room by a new one.
ClaimRoomAnew(room, socketId) ==
    [id |-> room.id, teacherId |-> socketId, students |-> {}, offers |-> <<>>]

\* rooms[roomId].teacherId = socket.id
ClaimRoom(room, socketId) == [room EXCEPT !.teacherId = socketId]

\* socket.join(roomId)
SocketJoin(grp, roomId, socketId) == [grp EXCEPT ![roomId] = @ \cup {socketId}]

\* `rooms` after createRoom.
CreateRoomRooms(socket, roomId) ==
    IF roomId = MissingRoomId THEN rooms
    ELSE IF ~HasRoom(rooms, roomId) THEN Append(rooms, NewRoom(roomId, socket))
    ELSE SetRoom(rooms, ClaimRoom(RoomAt(rooms, roomId), socket))

\* What createRoom emits: the existing offers to a socket that claims a room.
CreateRoomEmits(socket, roomId) ==
    IF roomId # MissingRoomId /\ HasRoom(rooms, roomId)
    THEN <<Emit(status, groups, socket, "availableOffers",
                RoomAt(CreateRoomRooms(socket, roomId), roomId).offers)>>
    ELSE <<>>

CreateRoom(socket, roomId) ==
    /\ Handles(socket)
    /\ rooms' = CreateRoomRooms(socket, roomId)
    /\ groups' = IF roomId = MissingRoomId THEN groups
                 ELSE SocketJoin(groups, roomId, socket)
    /\ joined' = IF roomId # MissingRoomId /\ ~HasRoom(rooms, roomId)
                 THEN [joined EXCEPT ![roomId] = {}]
                 ELSE joined
    /\ closedRooms' = closedRooms \ {roomId}
    /\ UNCHANGED <<status, pendingCandidates, nextCand, lastOffer>>

\* ------------------------------------------------------------------------
\* joinRoom (lines 60-97)
\* ------------------------------------------------------------------------

\* room.students.add(socket.id)
AddStudent(room, socketId) == [room EXCEPT !.students = @ \cup {socketId}]

\* Mutant: the buffered candidates are not pushed.
PushPendingDropped(entry, pending) == entry

\* entry.candidates.push(...pending.map(p => p.candidate))
PushPending(entry, pending) ==
    [entry EXCEPT !.candidates = @ \o PendingList(pending)]

\* The pending flush of joinRoom and newOffer: pendingCandidates[sid], when
\* the key exists, is appended to room.offers[sid].candidates ...
FlushInto(offers, pend, sid) ==
    IF HasKey(pend, sid)
    THEN SetOffer(offers, PushPending(OfferAt(offers, sid), pend[sid]))
    ELSE offers

\* ... and deleted.
FlushKey(pend, sid) == IF HasKey(pend, sid) THEN DeleteKey(pend, sid) ELSE pend

\* The room after the body of joinRoom (lines 72-91).
JoinedRoom(room, pend, socketId) ==
    LET added == AddStudent(room, socketId)
        ensured == [added EXCEPT !.offers = EnsureOffer(@, socketId)]
    IN [ensured EXCEPT !.offers = FlushInto(@, pend, socketId)]

\* joinRoom goes past its two rejections.
JoinAccepted(roomId) == roomId # MissingRoomId /\ HasRoom(rooms, roomId)

JoinRoomRooms(socket, roomId) ==
    IF JoinAccepted(roomId)
    THEN SetRoom(rooms, JoinedRoom(RoomAt(rooms, roomId), pendingCandidates, socket))
    ELSE rooms

JoinRoomPending(socket, roomId) ==
    IF JoinAccepted(roomId) THEN FlushKey(pendingCandidates, socket)
    ELSE pendingCandidates

JoinRoomEmits(socket, roomId) ==
    IF roomId = MissingRoomId
    THEN <<Emit(status, groups, socket, "roomClosed", "RoomId missing")>>
    ELSE IF ~HasRoom(rooms, roomId)
    THEN <<Emit(status, groups, socket, "roomClosed", "Room not found")>>
    ELSE LET room == RoomAt(JoinRoomRooms(socket, roomId), roomId)
         IN <<Emit(status, groups, room.teacherId, "availableOffers", room.offers)>>

JoinRoom(socket, roomId) ==
    /\ Handles(socket)
    /\ rooms' = JoinRoomRooms(socket, roomId)
    /\ pendingCandidates' = JoinRoomPending(socket, roomId)
    /\ groups' = IF JoinAccepted(roomId) THEN SocketJoin(groups, roomId, socket)
                 ELSE groups
    /\ joined' = IF JoinAccepted(roomId) THEN [joined EXCEPT ![roomId] = @ \cup {socket}]
                 ELSE joined
    /\ UNCHANGED <<status, nextCand, lastOffer, closedRooms>>

\* ------------------------------------------------------------------------
\* newOffer (lines 100-138)
\* ------------------------------------------------------------------------

\* Mutant: the record is replaced by a new one holding only the offer.
UpsertOfferAnew(offers, sid, offer) ==
    SetOffer(EnsureOffer(offers, sid), [EmptyOffer(sid) EXCEPT !.offer = offer])

\* room.offers[sid] = room.offers[sid] || {...}; room.offers[sid].offer = offer
UpsertOffer(offers, sid, offer) ==
    LET ensured == EnsureOffer(offers, sid)
    IN SetOffer(ensured, [OfferAt(ensured, sid) EXCEPT !.offer = offer])

\* Mutant: the entry is emptied when it exists.
EnsurePendingReset(pend, sid) == PutKey(pend, sid, <<>>)

\* if (!pendingCandidates[socket.id]) pendingCandidates[socket.id] = []
EnsurePending(pend, sid) == IF HasKey(pend, sid) THEN pend ELSE PutKey(pend, sid, <<>>)

\* room.offers of the sender's room after newOffer (lines 113-128).
OfferedOffers(room, pend, socketId, offer) ==
    FlushInto(UpsertOffer(room.offers, socketId, offer), pend, socketId)

NewOfferRooms(socket, offer) ==
    LET roomId == findRoomForStudent(socket)
    IN IF roomId = Null THEN rooms
       ELSE LET room == RoomAt(rooms, roomId)
            IN SetRoom(rooms,
                   [room EXCEPT !.offers = OfferedOffers(room, pendingCandidates, socket, offer)])

NewOfferPending(socket, offer) ==
    IF findRoomForStudent(socket) = Null
    THEN EnsurePending(pendingCandidates, socket)
    ELSE FlushKey(pendingCandidates, socket)

NewOfferEmits(socket, offer) ==
    LET roomId == findRoomForStudent(socket)
    IN IF roomId = Null THEN <<>>
       ELSE LET room == RoomAt(NewOfferRooms(socket, offer), roomId)
            IN <<Emit(status, groups, room.teacherId, "newOfferAwaiting",
                      <<OfferAt(room.offers, socket)>>)>>

NewOfferAck(socket, offer) ==
    IF findRoomForStudent(socket) = Null
    THEN [status |-> "ignored", reason |-> "not in room"]
    ELSE [status |-> "ok", offerId |-> socket]

NewOffer(socket, offer) ==
    /\ Handles(socket)
    /\ rooms' = NewOfferRooms(socket, offer)
    /\ pendingCandidates' = NewOfferPending(socket, offer)
    /\ lastOffer' =
          IF findRoomForStudent(socket) = Null THEN lastOffer
          ELSE [lastOffer EXCEPT ![socket] =
                  [offer |-> offer,
                   teacher |-> RoomAt(rooms, findRoomForStudent(socket)).teacherId]]
    /\ UNCHANGED <<status, groups, nextCand, joined, closedRooms>>

\* ------------------------------------------------------------------------
\* newAnswer (lines 141-165)
\* ------------------------------------------------------------------------

\* offerEntry.answer = answer
SetAnswer(offers, sid, answer) ==
    SetOffer(offers, [OfferAt(offers, sid) EXCEPT !.answer = answer])

\* newAnswer goes past its two rejections.
AnswerAccepted(socket, offererSocketId) ==
    /\ findRoomForTeacher(socket) # Null
    /\ HasOffer(RoomAt(rooms, findRoomForTeacher(socket)).offers, offererSocketId)

NewAnswerRooms(socket, offererSocketId, answer) ==
    IF AnswerAccepted(socket, offererSocketId)
    THEN LET room == RoomAt(rooms, findRoomForTeacher(socket))
         IN SetRoom(rooms,
                [room EXCEPT !.offers = SetAnswer(@, offererSocketId, answer)])
    ELSE rooms

\* The entry newAnswer wrote: { ...offerEntry }
AnsweredEntry(socket, offererSocketId, answer) ==
    OfferAt(RoomAt(NewAnswerRooms(socket, offererSocketId, answer),
                   findRoomForTeacher(socket)).offers,
            offererSocketId)

NewAnswerEmits(socket, offererSocketId, answer) ==
    IF AnswerAccepted(socket, offererSocketId)
    THEN <<Emit(status, groups, offererSocketId, "answerResponse",
                AnsweredEntry(socket, offererSocketId, answer))>>
    ELSE <<>>

NewAnswerAck(socket, offererSocketId, answer) ==
    IF findRoomForTeacher(socket) = Null
    THEN [status |-> "ignored", reason |-> "teacher not in a room"]
    ELSE IF ~AnswerAccepted(socket, offererSocketId)
    THEN [status |-> "ignored", reason |-> "student not found"]
    ELSE [status |-> "candidates",
          candidates |-> AnsweredEntry(socket, offererSocketId, answer).candidates]

NewAnswer(socket, offererSocketId, answer) ==
    /\ Handles(socket)
    /\ rooms' = NewAnswerRooms(socket, offererSocketId, answer)
    /\ UNCHANGED <<status, pendingCandidates, groups, nextCand, joined,
                   lastOffer, closedRooms>>

\* ------------------------------------------------------------------------
\* sendIceCandidateToSignalingServer (lines 168-212)
\* ------------------------------------------------------------------------

\* Mutant: the candidate replaces what was buffered for the id.
BufferCandidateOverwrite(pend, fromSocketId, offererSocketId, candidate) ==
    PutKey(pend, offererSocketId,
           <<[fromSocketId |-> fromSocketId, candidate |-> candidate]>>)

\* pendingCandidates[sid] = pendingCandidates[sid] || []; ...push({ fromSocketId, candidate })
BufferCandidate(pend, fromSocketId, offererSocketId, candidate) ==
    LET old == IF HasKey(pend, offererSocketId) THEN pend[offererSocketId] ELSE <<>>
    IN PutKey(pend, offererSocketId,
              Append(old, [fromSocketId |-> fromSocketId, candidate |-> candidate]))

\* Mutant: the candidate replaces the record's candidates.
PushCandidateOnly(offers, sid, candidate) ==
    LET ensured == EnsureOffer(offers, sid)
    IN SetOffer(ensured, [OfferAt(ensured, sid) EXCEPT !.candidates = <<candidate>>])

\* ensure room.offers[sid]; room.offers[sid].candidates.push(candidate)
PushCandidate(offers, sid, candidate) ==
    LET ensured == EnsureOffer(offers, sid)
    IN SetOffer(ensured,
                [OfferAt(ensured, sid) EXCEPT !.candidates = Append(@, candidate)])

\* The socket id the candidate is forwarded to (lines 201-211).
ForwardTarget(room, fromSocketId, offererSocketId) ==
    IF fromSocketId = offererSocketId THEN room.teacherId ELSE offererSocketId

IceRooms(fromSocketId, offererSocketId, candidate) ==
    LET roomId == findRoomForSocketPair(fromSocketId, offererSocketId)
    IN IF roomId = Null THEN rooms
       ELSE LET room == RoomAt(rooms, roomId)
            IN SetRoom(rooms,
                   [room EXCEPT !.offers = PushCandidate(@, offererSocketId, candidate)])

IcePending(fromSocketId, offererSocketId, candidate) ==
    IF findRoomForSocketPair(fromSocketId, offererSocketId) = Null
    THEN BufferCandidate(pendingCandidates, fromSocketId, offererSocketId, candidate)
    ELSE pendingCandidates

IceEmits(fromSocketId, offererSocketId, candidate) ==
    LET roomId == findRoomForSocketPair(fromSocketId, offererSocketId)
    IN IF roomId = Null THEN <<>>
       ELSE <<Emit(status, groups,
                   ForwardTarget(RoomAt(rooms, roomId), fromSocketId, offererSocketId),
                   "receivedIceCandidateFromServer",
                   [fromSocketId |-> fromSocketId, candidate |-> candidate])>>

\* The handler reads only its payload, never socket.id: both ids are the
\* client's.  The candidate is numbered by its arrival at the server.
SendIceCandidate(socket, fromSocketId, offererSocketId) ==
    /\ Handles(socket)
    /\ nextCand <= MaxCandidates
    /\ nextCand' = nextCand + 1
    /\ rooms' = IceRooms(fromSocketId, offererSocketId, nextCand)
    /\ pendingCandidates' = IcePending(fromSocketId, offererSocketId, nextCand)
    /\ UNCHANGED <<status, groups, joined, lastOffer, closedRooms>>

\* ------------------------------------------------------------------------
\* disconnect (lines 215-237)
\* ------------------------------------------------------------------------

\* socket.io takes a closing socket out of every group before it fires
\* "disconnect".
LeaveAll(grp, socketId) == [r \in DOMAIN grp |-> grp[r] \ {socketId}]

\* Mutant: the record is deleted, the socket stays in room.students.
RemoveStudentRecordOnly(room, socketId) ==
    [room EXCEPT !.offers = DeleteOffer(@, socketId)]

\* room.students.delete(socket.id); delete room.offers[socket.id]
RemoveStudent(room, socketId) ==
    [room EXCEPT !.students = @ \ {socketId}, !.offers = DeleteOffer(@, socketId)]

\* Mutant: the rooms the socket teaches are not deleted.
DisconnectRoomsKeepTaught(rs, socketId) ==
    [i \in 1..Len(rs) |->
        IF rs[i].teacherId # socketId /\ socketId \in rs[i].students
        THEN RemoveStudent(rs[i], socketId)
        ELSE rs[i]]

\* Mutant: the loop stops after the first room it deletes.
DisconnectRoomsFirstTaught(rs, socketId) ==
    LET taught == {i \in 1..Len(rs) : rs[i].teacherId = socketId}
        first == IF taught = {} THEN 0
                 ELSE CHOOSE i \in taught : \A j \in taught : i <= j
        seen == IF first = 0 THEN rs ELSE SubSeq(rs, 1, first - 1)
        rest == IF first = 0 THEN <<>> ELSE SubSeq(rs, first + 1, Len(rs))
    IN [i \in 1..Len(seen) |->
          IF socketId \in seen[i].students
          THEN RemoveStudent(seen[i], socketId)
          ELSE seen[i]] \o rest

\* `rooms` after the loop: the rooms the socket teaches are deleted, and it
\* leaves the other rooms it is a student of.
DisconnectRooms(rs, socketId) ==
    LET kept == SelectSeq(rs, LAMBDA room : room.teacherId # socketId)
    IN [i \in 1..Len(kept) |->
          IF socketId \in kept[i].students
          THEN RemoveStudent(kept[i], socketId)
          ELSE kept[i]]

\* Mutant: the disconnecting socket's buffered candidates are kept.
DisconnectPendingKept(pend, socketId) == pend

\* if (pendingCandidates[socket.id]) delete pendingCandidates[socket.id]
DisconnectPending(pend, socketId) == FlushKey(pend, socketId)

\* Mutant: roomClosed goes to the teacher's own id, not to the room.
DisconnectRoomEmitsToTeacher(room, st, grp, socketId) ==
    IF room.teacherId = socketId
    THEN <<Emit(st, grp, room.teacherId, "roomClosed", "Teacher disconnected")>>
    ELSE IF socketId \in room.students
    THEN <<Emit(st, grp, room.teacherId, "availableOffers",
                RemoveStudent(room, socketId).offers)>>
    ELSE <<>>

\* What one iteration of the loop emits (lines 224-235).
DisconnectRoomEmits(room, st, grp, socketId) ==
    IF room.teacherId = socketId
    THEN <<Emit(st, grp, room.id, "roomClosed", "Teacher disconnected")>>
    ELSE IF socketId \in room.students
    THEN <<Emit(st, grp, room.teacherId, "availableOffers",
                RemoveStudent(room, socketId).offers)>>
    ELSE <<>>

\* What the loop emits from room i on, in Object.entries order.
RECURSIVE DisconnectEmitsFrom(_, _, _, _, _)
DisconnectEmitsFrom(rs, st, grp, socketId, i) ==
    IF i > Len(rs) THEN <<>>
    ELSE DisconnectRoomEmits(rs[i], st, grp, socketId)
            \o DisconnectEmitsFrom(rs, st, grp, socketId, i + 1)

\* What the disconnect handler of socketId emits when it runs on rooms rs,
\* the socket being closed (st) and out of every group (grp) by then.
DisconnectEmits(rs, st, grp, socketId) ==
    DisconnectEmitsFrom(rs, [st EXCEPT ![socketId] = "disconnected"],
                        LeaveAll(grp, socketId), socketId, 1)

\* The ids of the rooms whose teacherId is the socket.
TaughtRooms(rs, socketId) ==
    {rs[i].id : i \in {j \in 1..Len(rs) : rs[j].teacherId = socketId}}

Disconnect(socket) ==
    /\ status[socket] = "connected"
    /\ status' = [status EXCEPT ![socket] = "disconnected"]
    /\ groups' = LeaveAll(groups, socket)
    /\ pendingCandidates' = DisconnectPending(pendingCandidates, socket)
    /\ rooms' = DisconnectRooms(rooms, socket)
    /\ joined' = [r \in RoomIds |->
                    IF r \in TaughtRooms(rooms, socket) THEN {} ELSE joined[r] \ {socket}]
    /\ lastOffer' = [lastOffer EXCEPT ![socket] = NoOffer]
    /\ closedRooms' = closedRooms \cup TaughtRooms(rooms, socket)
    /\ UNCHANGED <<nextCand, steps>>

\* ------------------------------------------------------------------------
\* Specification
\* ------------------------------------------------------------------------

Next ==
    \/ \E socket \in Conn : Connect(socket)
    \/ \E socket \in Conn, roomId \in RoomIdInputs :
          steps < MaxEvents /\ CreateRoom(socket, roomId)
    \/ \E socket \in Conn, roomId \in RoomIdInputs :
          steps < MaxEvents /\ JoinRoom(socket, roomId)
    \/ \E socket \in Conn, offer \in Offers :
          steps < MaxEvents /\ NewOffer(socket, offer)
    \/ \E socket \in Conn, offererSocketId \in Conn, answer \in Answers :
          steps < MaxEvents /\ NewAnswer(socket, offererSocketId, answer)
    \/ \E socket \in Conn, fromSocketId \in Conn, offererSocketId \in Conn :
          steps < MaxEvents /\ SendIceCandidate(socket, fromSocketId, offererSocketId)
    \/ \E socket \in Conn : Disconnect(socket)

Spec == Init /\ [][Next]_vars

\* The same server with two sockets connecting and longer exchanges.  The ids
\* in the payloads still range over every socket id.
NextPair ==
    \/ \E socket \in PairConn : Connect(socket)
    \/ \E socket \in PairConn, roomId \in RoomIdInputs :
          steps < MaxPairEvents /\ CreateRoom(socket, roomId)
    \/ \E socket \in PairConn, roomId \in RoomIdInputs :
          steps < MaxPairEvents /\ JoinRoom(socket, roomId)
    \/ \E socket \in PairConn, offer \in Offers :
          steps < MaxPairEvents /\ NewOffer(socket, offer)
    \/ \E socket \in PairConn, offererSocketId \in Conn, answer \in Answers :
          steps < MaxPairEvents /\ NewAnswer(socket, offererSocketId, answer)
    \/ \E socket \in PairConn, fromSocketId \in Conn, offererSocketId \in Conn :
          steps < MaxPairEvents /\ SendIceCandidate(socket, fromSocketId, offererSocketId)
    \/ \E socket \in PairConn : Disconnect(socket)

SpecPair == Init /\ [][NextPair]_vars

\* ------------------------------------------------------------------------
\* Properties
\* ------------------------------------------------------------------------

Connected == {c \in Conn : status[c] = "connected"}
RoomIndexes == 1..Len(rooms)
ActiveIds == {rooms[i].id : i \in RoomIndexes}

\* The candidates of sid's record in a room's offers, [] when it has none.
CandidatesOf(offers, sid) ==
    IF HasOffer(offers, sid) THEN OfferAt(offers, sid).candidates ELSE <<>>

\* C1: every active room's subscriber set is exactly the set of sockets that
\* joined it since it was created and have not disconnected since; room ids
\* are unique among the active rooms, and a destroyed room has no entry, so
\* no subscriber set, at all.
SubscribersAreJoined ==
    /\ \A i \in RoomIndexes : rooms[i].students = joined[rooms[i].id]
    /\ \A i, j \in RoomIndexes : rooms[i].id = rooms[j].id => i = j
    /\ \A r \in RoomIds \ ActiveIds : joined[r] = {}

\* A room has a subscriber while a socket has disconnected and the room that
\* socket taught has been destroyed.
SubscribersAreJoinedWitness ==
    /\ \E i \in RoomIndexes : rooms[i].students # {}
    /\ \E c \in Conn : status[c] = "disconnected"
    /\ closedRooms # {}

\* C2: the candidates of every record are in arrival order: candidates are
\* numbered by arrival, so every candidate sequence is strictly increasing.
ArrivalOrderPreserved ==
    \A i \in RoomIndexes : \A k \in 1..Len(rooms[i].offers) :
        LET cs == rooms[i].offers[k].candidates
        IN \A a, b \in 1..Len(cs) : a < b => cs[a] < cs[b]

\* C3: no socket id has both a record in an active room and a key in
\* pendingCandidates.
NoRecordWithPending ==
    \A c \in Conn :
        ~(/\ HasKey(pendingCandidates, c)
          /\ \E i \in RoomIndexes : HasOffer(rooms[i].offers, c))

\* C4: a candidate a subscriber S of room R sends for itself is appended to
\* S's record in R and relayed to R's teacher P # S; a candidate P sends for
\* S is appended to S's record in R and relayed to S.
CandidateRelayedToPeer ==
    \A i \in RoomIndexes : \A S \in rooms[i].students \cap Connected :
        LET R == rooms[i]
            P == R.teacherId
            appended == CandidatesOf(R.offers, S) \o <<nextCand>>
        IN S # P =>
           /\ CandidatesOf(RoomAt(IceRooms(S, S, nextCand), R.id).offers, S) = appended
           /\ IceEmits(S, S, nextCand) =
                 <<Emit(status, groups, P, "receivedIceCandidateFromServer",
                        [fromSocketId |-> S, candidate |-> nextCand])>>
           /\ CandidatesOf(RoomAt(IceRooms(P, S, nextCand), R.id).offers, S) = appended
           /\ IceEmits(P, S, nextCand) =
                 <<Emit(status, groups, S, "receivedIceCandidateFromServer",
                        [fromSocketId |-> P, candidate |-> nextCand])>>

\* A room as createRoom has just made it: no subscriber, no record.
FreshRoom(room) == room.students = {} /\ room.offers = <<>>

\* C5 as the spec states it: the join of a first subscriber into a room just
\* created announces the empty list to the teacher.
FirstJoinAnnouncesEmptyList ==
    \A i \in RoomIndexes : \A S \in Connected :
        (FreshRoom(rooms[i]) /\ S # rooms[i].teacherId) =>
            JoinRoomEmits(S, rooms[i].id) =
                <<Emit(status, groups, rooms[i].teacherId, "availableOffers", <<>>)>>

\* C5, amended: the join of a first subscriber into a room just created
\* announces to the teacher the list of one record, the joiner's own: offer
\* null, answer null, and as candidates those buffered for the joiner.
FirstJoinAnnouncesOwnRecord ==
    \A i \in RoomIndexes : \A S \in Connected :
        (FreshRoom(rooms[i]) /\ S # rooms[i].teacherId) =>
            JoinRoomEmits(S, rooms[i].id) =
                <<Emit(status, groups, rooms[i].teacherId, "availableOffers",
                       <<[offererSocketId |-> S, offer |-> Null, answer |-> Null,
                          candidates |->
                             IF HasKey(pendingCandidates, S)
                             THEN PendingList(pendingCandidates[S]) ELSE <<>>]>>)>>

\* A room just created, and a connected socket, not its teacher, with
\* candidates buffered, that can still join it.
FirstJoinWitness ==
    \E i \in RoomIndexes : \E S \in Connected :
        /\ FreshRoom(rooms[i]) /\ S # rooms[i].teacherId
        /\ HasKey(pendingCandidates, S) /\ pendingCandidates[S] # <<>>
        /\ steps < MaxEvents

\* No helper resolves any socket to room id r in rooms rs.
Unresolvable(rs, r) ==
    \A x, y \in Conn :
        /\ findRoomForStudentIn(rs, x) # r
        /\ findRoomForTeacherIn(rs, x) # r
        /\ findRoomForSocketPairIn(rs, x, y) # r

\* C6: a room destroyed by its teacher's disconnect is absent from `rooms`,
\* with its records, and no helper resolves to its id, from the disconnect on
\* until a createRoom for the id.
ClosedRoomsAreGone ==
    \A r \in closedRooms : ~HasRoom(rooms, r) /\ Unresolvable(rooms, r)

\* A teacher's disconnect has destroyed a room while a socket that entered
\* it is still connected and another room is active.
ClosedRoomsWitness ==
    \E r \in closedRooms : groups[r] # {} /\ rooms # <<>>

\* The sockets a roomClosed "Teacher disconnected" among `emits` reaches.
ToldTeacherLeft(emits) ==
    UNION {emits[k].rcpt : k \in {j \in 1..Len(emits) :
              /\ emits[j].event = "roomClosed"
              /\ emits[j].payload = "Teacher disconnected"}}

\* A joinRoom for room id r by socket s is rejected as "Room not found" and
\* changes nothing.
JoinRejected(s, r) ==
    /\ JoinRoomEmits(s, r) = <<Emit(status, groups, s, "roomClosed", "Room not found")>>
    /\ s \in Recipients(status, groups, s)
    /\ JoinRoomRooms(s, r) = rooms
    /\ JoinRoomPending(s, r) = pendingCandidates

\* C7 as the spec states it: the disconnect of a room's teacher sends
\* roomClosed "Teacher disconnected" to every socket in the room's subscriber
\* set, and every join for the id afterwards, until it is created again, is
\* rejected and changes nothing.
TeacherLeftToldToAll ==
    /\ \A c \in Connected : \A i \in RoomIndexes :
          rooms[i].teacherId = c =>
              rooms[i].students \subseteq
                  ToldTeacherLeft(DisconnectEmits(rooms, status, groups, c))
    /\ \A r \in closedRooms : \A s \in Connected : JoinRejected(s, r)

\* C7, amended: ... to every OTHER socket in the room's subscriber set (the
\* teacher may have joined its own room; it is gone and is sent nothing).
TeacherLeftToldToOthers ==
    /\ \A c \in Connected : \A i \in RoomIndexes :
          rooms[i].teacherId = c =>
              rooms[i].students \ {c} \subseteq
                  ToldTeacherLeft(DisconnectEmits(rooms, status, groups, c))
    /\ \A r \in closedRooms : \A s \in Connected : JoinRejected(s, r)

\* A teacher with a subscriber other than itself can disconnect, while a room
\* closed by an earlier disconnect can be asked for by a connected socket.
TeacherLeftWitness ==
    /\ \E i \in RoomIndexes :
          /\ rooms[i].teacherId \in Connected
          /\ rooms[i].students \ {rooms[i].teacherId} # {}
    /\ closedRooms # {}
    /\ steps < MaxEvents

\* C8: run on the state its first run leaves, the disconnect handler of a
\* socket changes neither rooms nor pendingCandidates and emits nothing.
DisconnectIdempotent ==
    \A c \in Connected :
        LET rooms1 == DisconnectRooms(rooms, c)
            pend1 == DisconnectPending(pendingCandidates, c)
            status1 == [status EXCEPT ![c] = "disconnected"]
            groups1 == LeaveAll(groups, c)
        IN /\ DisconnectRooms(rooms1, c) = rooms1
           /\ DisconnectPending(pend1, c) = pend1
           /\ DisconnectEmits(rooms1, status1, groups1, c) = <<>>

\* A socket that teaches one room, is a subscriber of another and has
\* candidates buffered can disconnect: its first disconnect does all it can.
DisconnectIdempotentWitness ==
    \E c \in Connected :
        /\ HasKey(pendingCandidates, c)
        /\ \E i, j \in RoomIndexes :
              /\ rooms[i].teacherId = c
              /\ rooms[j].teacherId # c /\ c \in rooms[j].students
        /\ Len(DisconnectEmits(rooms, status, groups, c)) = 2

\* C9: when teacher P answers the last offer O that a still connected
\* subscriber S submitted while P taught its room, the answerResponse emitted
\* to S carries offer O and the submitted answer.
OfferAnswerRoundTrip ==
    \A S \in Connected : \A P \in Connected : \A answer \in Answers :
        (S # P /\ lastOffer[S].teacher = P /\ AnswerAccepted(P, S)) =>
            \A k \in 1..Len(NewAnswerEmits(P, S, answer)) :
                LET e == NewAnswerEmits(P, S, answer)[k]
                IN (e.event = "answerResponse" /\ e.to = S) =>
                       /\ e.payload.offer = lastOffer[S].offer
                       /\ e.payload.answer = answer

\* C10: createRoom by socket B for an active room id makes B the teacher,
\* keeps the subscriber set and every record, and emits all the records as
\* availableOffers to B; for an id that is not active it adds a room with no
\* subscriber and no record and emits nothing.  No other room changes.
LastClaimWins ==
    \A B \in Connected : \A r \in RoomIds :
        LET after == CreateRoomRooms(B, r)
            emits == CreateRoomEmits(B, r)
        IN IF HasRoom(rooms, r)
           THEN LET old == RoomAt(rooms, r)
                IN /\ Len(after) = Len(rooms)
                   /\ \A i \in RoomIndexes :
                         IF rooms[i].id = r
                         THEN after[i] = [id |-> r, teacherId |-> B,
                                          students |-> old.students,
                                          offers |-> old.offers]
                         ELSE after[i] = rooms[i]
                   /\ emits = <<Emit(status, groups, B, "availableOffers", old.offers)>>
                   /\ B \in emits[1].rcpt
           ELSE /\ after = Append(rooms, [id |-> r, teacherId |-> B,
                                          students |-> {}, offers |-> <<>>])
                /\ emits = <<>>

\* A connected socket B can claim a room whose teacher is another socket and
\* which has a subscriber with an offer on record.
LastClaimWinsWitness ==
    \E B \in Connected : \E i \in RoomIndexes :
        /\ rooms[i].teacherId # B
        /\ rooms[i].students # {}
        /\ \E k \in 1..Len(rooms[i].offers) : rooms[i].offers[k].offer # Null
        /\ steps < MaxEvents

\* Sequence s is a prefix of sequence t.
IsPrefix(s, t) == Len(s) <= Len(t) /\ SubSeq(t, 1, Len(s)) = s

\* rooms[i] is the first room, in Object.entries order, that has S as a
\* student.
FirstRoomOfStudent(i, S) ==
    /\ S \in rooms[i].students
    /\ \A j \in 1..(i - 1) : S \notin rooms[j].students

\* C11: newOffer from a connected socket S that is a student of a room (with
\* several such rooms: the first of them) sets the offer of S's record in
\* that room, keeps the record's answer, keeps its candidates as a prefix of
\* the resulting candidates, emits newOfferAwaiting with the list of that one
\* record to the room's teacher, and acks {status: "ok", offerId: S}.
OfferUpserted ==
    \A S \in Connected : \A offer \in Offers : \A i \in RoomIndexes :
        FirstRoomOfStudent(i, S) =>
            LET old == rooms[i]
                after == NewOfferRooms(S, offer)
                emits == NewOfferEmits(S, offer)
            IN /\ Len(after) = Len(rooms)
               /\ HasOffer(after[i].offers, S)
               /\ LET rec == OfferAt(after[i].offers, S)
                  IN /\ rec.offer = offer
                     /\ rec.answer = IF HasOffer(old.offers, S)
                                     THEN OfferAt(old.offers, S).answer ELSE Null
                     /\ IsPrefix(CandidatesOf(old.offers, S), rec.candidates)
                     /\ emits = <<Emit(status, groups, old.teacherId,
                                       "newOfferAwaiting", <<rec>>)>>
                     /\ old.teacherId \in emits[1].rcpt
               /\ NewOfferAck(S, offer) = [status |-> "ok", offerId |-> S]

\* A student whose record already holds an offer and a candidate can send its
\* offer again.
OfferUpsertedWitness ==
    \E S \in Connected : \E i \in RoomIndexes :
        /\ FirstRoomOfStudent(i, S)
        /\ HasOffer(rooms[i].offers, S)
        /\ OfferAt(rooms[i].offers, S).offer # Null
        /\ OfferAt(rooms[i].offers, S).candidates # <<>>
        /\ steps < MaxPairEvents

\* Sequence s is a suffix of sequence t.
IsSuffix(s, t) ==
    Len(s) <= Len(t) /\ SubSeq(t, Len(t) - Len(s) + 1, Len(t)) = s

\* What is buffered for owner now is still buffered, in place, in pend.
StillBuffered(pend, owner) ==
    HasKey(pend, owner) /\ IsPrefix(pendingCandidates[owner], pend[owner])

\* What is buffered for owner now is, with rooms rs and buffer pend, at the
\* end of the candidates of owner's record in room roomId, and owner has no
\* key in pend.
FlushedInto(rs, pend, owner, roomId) ==
    /\ ~HasKey(pend, owner)
    /\ HasRoom(rs, roomId)
    /\ HasOffer(RoomAt(rs, roomId).offers, owner)
    /\ IsSuffix(PendingList(pendingCandidates[owner]),
                OfferAt(RoomAt(rs, roomId).offers, owner).candidates)

\* C12: a candidate for which findRoomForSocketPair finds no room is appended
\* to pendingCandidates[offererSocketId] and changes no room; what is
\* buffered for an id stays buffered, in order, through every event other
\* than the id's own disconnect, until the id's socket joins a room or sends
\* an offer as a student, and then all of it is in the id's record of that
\* room and the key is gone.  A socket in no room and with no record that
\* joins a room gets a record whose candidates are exactly those buffered.
NoCandidateLost ==
    /\ \A from, owner \in Conn :
          findRoomForSocketPair(from, owner) = Null =>
              /\ IcePending(from, owner, nextCand) =
                    PutKey(pendingCandidates, owner,
                           (IF HasKey(pendingCandidates, owner)
                            THEN pendingCandidates[owner] ELSE <<>>)
                           \o <<[fromSocketId |-> from, candidate |-> nextCand]>>)
              /\ IceRooms(from, owner, nextCand) = rooms
    /\ \A owner \in DOMAIN pendingCandidates :
          /\ \A s \in Connected : \A r \in RoomIdInputs :
                IF s = owner /\ JoinAccepted(r)
                THEN FlushedInto(JoinRoomRooms(s, r), JoinRoomPending(s, r), owner, r)
                ELSE StillBuffered(JoinRoomPending(s, r), owner)
          /\ \A s \in Connected : \A offer \in Offers :
                IF s = owner /\ findRoomForStudent(s) # Null
                THEN FlushedInto(NewOfferRooms(s, offer), NewOfferPending(s, offer),
                                 owner, findRoomForStudent(s))
                ELSE StillBuffered(NewOfferPending(s, offer), owner)
          /\ \A from, other \in Conn :
                StillBuffered(IcePending(from, other, nextCand), owner)
          /\ \A c \in Connected \ {owner} :
                StillBuffered(DisconnectPending(pendingCandidates, c), owner)
    /\ \A S \in Connected \cap DOMAIN pendingCandidates : \A i \in RoomIndexes :
          (/\ findRoomForStudent(S) = Null
           /\ \A j \in RoomIndexes : ~HasOffer(rooms[j].offers, S)) =>
              CandidatesOf(RoomAt(JoinRoomRooms(S, rooms[i].id), rooms[i].id).offers, S)
                  = PendingList(pendingCandidates[S])

\* A connected socket that is a student of no room has a candidate buffered
\* and can join a room.
NoCandidateLostWitness ==
    \E S \in Connected :
        /\ HasKey(pendingCandidates, S) /\ pendingCandidates[S] # <<>>
        /\ findRoomForStudent(S) = Null
        /\ rooms # <<>>
        /\ steps < MaxPairEvents

\* rs2 has the record of sid in room roomId.
HasRecord(rs2, roomId, sid) ==
    HasRoom(rs2, roomId) /\ HasOffer(RoomAt(rs2, roomId).offers, sid)

\* Every record of rooms rs1 that is still there in rs2 (same room id, same
\* offererSocketId) has its candidates of rs1 as a prefix of those of rs2.
AppendOnly(rs1, rs2) ==
    \A i \in 1..Len(rs1) : \A k \in 1..Len(rs1[i].offers) :
        LET roomId == rs1[i].id
            sid == rs1[i].offers[k].offererSocketId
        IN HasRecord(rs2, roomId, sid) =>
               IsPrefix(rs1[i].offers[k].candidates,
                        OfferAt(RoomAt(rs2, roomId).offers, sid).candidates)

\* C13: in every step, every record that exists before and after it has its
\* candidates before as a prefix of its candidates after; a record is gone
\* after a step only when the step is the disconnect of its owner or of the
\* teacher of its room.
CandidatesAppendOnly ==
    [][/\ AppendOnly(rooms, rooms')
       /\ \A i \in RoomIndexes : \A k \in 1..Len(rooms[i].offers) :
             LET sid == rooms[i].offers[k].offererSocketId
             IN \/ HasRecord(rooms', rooms[i].id, sid)
                \/ status[sid] = "connected" /\ status'[sid] = "disconnected"
                \/ status'[rooms[i].teacherId] = "disconnected"]_vars

\* A record with a candidate exists while its owner has a candidate buffered
\* and the server can handle another event.
CandidatesAppendOnlyWitness ==
    /\ \E i \in RoomIndexes : \E k \in 1..Len(rooms[i].offers) :
          LET rec == rooms[i].offers[k]
          IN /\ rec.candidates # <<>>
             /\ HasKey(pendingCandidates, rec.offererSocketId)
             /\ pendingCandidates[rec.offererSocketId] # <<>>
    /\ steps < MaxPairEvents

\* C14: newAnswer {offererSocketId: owner, answer} from a connected socket P
\* that is the teacher of a room holding a record for owner, whether P
\* teaches one room or several, sets the answer of that record, emits
\* answerResponse with the record to owner and acks P with the record's
\* candidates.
AnswerReachesRecord ==
    \A P \in Connected : \A owner \in Conn : \A answer \in Answers :
        \A i \in RoomIndexes :
            (rooms[i].teacherId = P /\ HasOffer(rooms[i].offers, owner)) =>
                LET after == NewAnswerRooms(P, owner, answer)
                    rec == [OfferAt(rooms[i].offers, owner) EXCEPT !.answer = answer]
                IN /\ Len(after) = Len(rooms)
                   /\ OfferAt(after[i].offers, owner) = rec
                   /\ NewAnswerEmits(P, owner, answer) =
                         <<Emit(status, groups, owner, "answerResponse", rec)>>
                   /\ NewAnswerAck(P, owner, answer) =
                         [status |-> "candidates", candidates |-> rec.candidates]

\* newOffer from socket s is rejected: s is a student of no room.
OfferRejected(s) == findRoomForStudent(s) = Null

\* What a rejected newOffer or newAnswer does besides writing
\* pendingCandidates: an ack {status: "ignored", reason}, no emission, rooms
\* and every record as they were.
IgnoredQuietly(ack, emits, rs) ==
    /\ ack.status = "ignored"
    /\ "reason" \in DOMAIN ack /\ ack.reason # Null
    /\ emits = <<>>
    /\ rs = rooms

\* A rejected newAnswer; the handler has no statement on pendingCandidates.
RejectedAnswersIgnored ==
    \A s \in Connected : \A owner \in Conn : \A answer \in Answers :
        ~AnswerAccepted(s, owner) =>
            IgnoredQuietly(NewAnswerAck(s, owner, answer),
                           NewAnswerEmits(s, owner, answer),
                           NewAnswerRooms(s, owner, answer))

\* C15 as the spec states it: a rejected newOffer and a rejected newAnswer
\* are acked {status: "ignored", reason}, emit nothing, and leave rooms, every
\* record and pendingCandidates exactly as they were.
RejectedChangesNothing ==
    /\ \A s \in Connected : \A offer \in Offers :
          OfferRejected(s) =>
              /\ IgnoredQuietly(NewOfferAck(s, offer), NewOfferEmits(s, offer),
                                NewOfferRooms(s, offer))
              /\ NewOfferPending(s, offer) = pendingCandidates
    /\ RejectedAnswersIgnored

\* C15, amended: ... and leave rooms and every record exactly as they were;
\* pendingCandidates is as it was, except that a rejected newOffer adds an
\* empty entry for its sender when the sender has none.
RejectedChangesNoRoom ==
    /\ \A s \in Connected : \A offer \in Offers :
          OfferRejected(s) =>
              /\ IgnoredQuietly(NewOfferAck(s, offer), NewOfferEmits(s, offer),
                                NewOfferRooms(s, offer))
              /\ NewOfferPending(s, offer) =
                    IF HasKey(pendingCandidates, s) THEN pendingCandidates
                    ELSE PutKey(pendingCandidates, s, <<>>)
    /\ RejectedAnswersIgnored

\* A socket that is a student of no room and has a candidate buffered, and a
\* socket that has none, can send an offer; a teacher can answer an id its
\* room has no record of, with another room holding records.
RejectedWitness ==
    /\ \E s \in Connected :
          OfferRejected(s) /\ HasKey(pendingCandidates, s) /\ pendingCandidates[s] # <<>>
    /\ \E s \in Connected : OfferRejected(s) /\ ~HasKey(pendingCandidates, s)
    /\ \E s \in Connected : \E owner \in Conn :
          findRoomForTeacher(s) # Null /\ ~AnswerAccepted(s, owner)
    /\ steps < MaxPairEvents

\* The answer of sid's record in room roomId of rs, null when rs has no such
\* record.
AnswerOf(rs, roomId, sid) ==
    IF HasRecord(rs, roomId, sid)
    THEN OfferAt(RoomAt(rs, roomId).offers, sid).answer ELSE Null

\* The ids of the rooms of rs that hold a record whose answer is not the one
\* it has in `rooms`.
AnswerChanged(rs) ==
    {rs[i].id : i \in {j \in 1..Len(rs) :
        \E k \in 1..Len(rs[j].offers) :
            rs[j].offers[k].answer #
                AnswerOf(rooms, rs[j].id, rs[j].offers[k].offererSocketId)}}

\* C16: in every step, a record's answer is set or changed only when the step
\* is a newAnswer whose sender is, when the step starts, the teacher of the
\* record's room.
OnlyTeacherAnswers ==
    [][\A r \in AnswerChanged(rooms') :
          \E s \in Connected : \E owner \in Conn : \E answer \in Answers :
              /\ NewAnswer(s, owner, answer)
              /\ HasRoom(rooms, r)
              /\ RoomAt(rooms, r).teacherId = s]_vars

\* A room has a teacher, a student that is not the teacher and whose record
\* has no answer, and a connected former teacher that a later createRoom
\* displaced; each of them can send a newAnswer.
OnlyTeacherAnswersWitness ==
    \E i \in RoomIndexes :
        /\ \E S \in (rooms[i].students \cap Connected) \ {rooms[i].teacherId} :
              AnswerOf(rooms, rooms[i].id, S) = Null
        /\ \E A \in (groups[rooms[i].id] \cap Connected) \ rooms[i].students :
              A # rooms[i].teacherId
        /\ steps < MaxEvents

\* C17: when a connected socket S that is a student of room R and not its
\* teacher disconnects, R loses S from its students and S's record and keeps
\* its teacher, its other students and their records; pendingCandidates
\* loses S's key and nothing else; R's remaining records are emitted as
\* availableOffers to R's teacher; every room S neither teaches nor is a
\* student of stays as it is.
StudentLeaves ==
    \A S \in Connected : \A i \in RoomIndexes :
        (S \in rooms[i].students /\ rooms[i].teacherId # S) =>
            LET R == rooms[i]
                after == DisconnectRooms(rooms, S)
                pend == DisconnectPending(pendingCandidates, S)
                emits == DisconnectEmits(rooms, status, groups, S)
                left == SelectSeq(R.offers, LAMBDA e : e.offererSocketId # S)
            IN /\ HasRoom(after, R.id)
               /\ RoomAt(after, R.id) =
                     [id |-> R.id, teacherId |-> R.teacherId,
                      students |-> R.students \ {S}, offers |-> left]
               /\ ~HasKey(pend, S)
               /\ \A c \in Conn \ {S} :
                     /\ HasKey(pend, c) <=> HasKey(pendingCandidates, c)
                     /\ HasKey(pend, c) => pend[c] = pendingCandidates[c]
               /\ \E k \in 1..Len(emits) :
                     /\ emits[k].to = R.teacherId
                     /\ emits[k].event = "availableOffers"
                     /\ emits[k].payload = left
                     /\ R.teacherId \in emits[k].rcpt
               /\ \A j \in RoomIndexes :
                     (rooms[j].teacherId # S /\ S \notin rooms[j].students) =>
                         /\ HasRoom(after, rooms[j].id)
                         /\ RoomAt(after, rooms[j].id) = rooms[j]

\* A student with a record and a key in pendingCandidates, in a room with
\* another teacher and another student's record, can disconnect.
StudentLeavesWitness ==
    \E S \in Connected : \E i \in RoomIndexes :
        /\ S \in rooms[i].students /\ rooms[i].teacherId # S
        /\ HasOffer(rooms[i].offers, S)
        /\ \E T \in rooms[i].students \ {S, rooms[i].teacherId} :
              HasOffer(rooms[i].offers, T)
        /\ HasKey(pendingCandidates, S)

\* The offererSocketIds of a room's records.
Owners(room) == {room.offers[k].offererSocketId : k \in 1..Len(room.offers)}

\* C18: in every state, the owners of the records of every active room are
\* exactly the room's students, one record each.
RecordsOfStudents ==
    \A i \in RoomIndexes :
        /\ Owners(rooms[i]) = rooms[i].students
        /\ \A k, l \in 1..Len(rooms[i].offers) :
              rooms[i].offers[k].offererSocketId = rooms[i].offers[l].offererSocketId
                  => k = l

\* C19: after its disconnect a socket is the teacher of no room, a student of
\* no room, the owner of no record and has no key in pendingCandidates,
\* whatever the other sockets send; when no socket is connected, rooms and
\* pendingCandidates are empty.
CleanupPermanent ==
    /\ \A c \in Conn :
          status[c] = "disconnected" =>
              /\ \A i \in RoomIndexes :
                    /\ rooms[i].teacherId # c
                    /\ c \notin rooms[i].students
                    /\ ~HasOffer(rooms[i].offers, c)
              /\ ~HasKey(pendingCandidates, c)
    /\ Connected = {} => (rooms = <<>> /\ DOMAIN pendingCandidates = {})

\* C20: the roomClosed that the disconnect of a room's teacher addresses to
\* the room id reaches students of that room only.
RoomClosedToStudentsOnly ==
    \A c \in Connected : \A i \in RoomIndexes :
        rooms[i].teacherId = c =>
            LET emits == DisconnectRoomEmits(rooms[i],
                             [status EXCEPT ![c] = "disconnected"],
                             LeaveAll(groups, c), c)
            IN \A k \in 1..Len(emits) :
                  emits[k].event = "roomClosed" =>
                      emits[k].rcpt \subseteq rooms[i].students

====
